---- MODULE Spec2Model ----
(***************************************************************************)
(* Credential verification and account-security lifecycle of the Flokie    *)
(* backend: User (app/models/user.py), AuthService                         *)
(* (app/services/auth_service.py) and the administrative operations of     *)
(* UserService (app/services/user_service.py).                             *)
(*                                                                         *)
(* Each action is one request: the handler runs on a request-scoped        *)
(* session, so db holds the committed rows and a change the handler does   *)
(* not commit is gone when the request ends.                               *)
(*                                                                         *)
(* Strings are sequences of one-character strings.  Time is counted in     *)
(* minutes.  failed_login_attempts is stored as a decimal string; str()    *)
(* and int() are inverse on the naturals, so the column is a natural here. *)
(***************************************************************************)
EXTENDS Integers, Sequences, FiniteSets, TLC

VARIABLES db, now, ticks, nextTok, consumed, res, inflight

vars == <<db, now, ticks, nextTok, consumed, res, inflight>>

----------------------------------------------------------------------------
(* Bounds *)

MaxTicks == 1
MaxTokens == 3

----------------------------------------------------------------------------
(* Program constants *)

NULL == -1

LOCK_THRESHOLD == 5
LOCK_MINUTES == 30
RESET_EXPIRES_HOURS == 24
MIN_PASSWORD_LENGTH == 8
USERNAME_MIN == 3
USERNAME_MAX == 50
EMAIL_MIN == 5
EMAIL_MAX == 100
PASSWORD_MAX == 128

MSG_INVALID_CREDENTIALS == "Invalid username or password"
MSG_DEACTIVATED == "Account is deactivated. Please contact support."
MSG_LOCKED == "Account is temporarily locked due to multiple failed login attempts. Please try again later."
MSG_LOGIN_OK == "Login successful"
MSG_RESET_GENERIC == "If the email address exists, a password reset link has been sent."
MSG_RESET_TOKEN == "Password reset token generated successfully."
MSG_RESET_OK == "Password reset successfully."
MSG_ALREADY_VERIFIED == "Email address is already verified."
MSG_VERIFIED == "Email verified successfully."
MSG_REFRESH_OK == "Token refreshed successfully"
MSG_CHANGE_OK == "Password changed successfully."
MSG_REGISTER_OK == "Registration successful. Please verify your email address."

----------------------------------------------------------------------------
(* Strings *)

Rep(c, n) == [i \in 1..n |-> c]

LowerChar(c) ==
    CASE c = "A" -> "a"
      [] c = "B" -> "b"
      [] c = "O" -> "o"
      [] OTHER -> c

Lower(s) == [i \in 1..Len(s) |-> LowerChar(s[i])]

RECURSIVE LStrip(_)
LStrip(s) == IF s # <<>> /\ Head(s) = " " THEN LStrip(Tail(s)) ELSE s

RECURSIVE RStrip(_)
RStrip(s) ==
    IF s # <<>> /\ s[Len(s)] = " " THEN RStrip(SubSeq(s, 1, Len(s) - 1)) ELSE s

Strip(s) == RStrip(LStrip(s))

Contains(s, c) == \E i \in 1..Len(s) : s[i] = c

----------------------------------------------------------------------------
(* Inputs *)

Bob == <<"b", "o", "b">>
BobUpper == <<"B", "o", "b">>
Amy == <<"a", "m", "y">>
BobMail == <<"b", "@", "x", ".", "y">>
AmyMail == <<"a", "@", "x", ".", "y">>
NoMail == <<"n", "@", "x", ".", "y">>

PwA == Rep("a", MIN_PASSWORD_LENGTH)
PwB == Rep("b", MIN_PASSWORD_LENGTH)
PwShort == Rep("a", MIN_PASSWORD_LENGTH - 1)
PwBlank == Rep(" ", MIN_PASSWORD_LENGTH)

RegUsernames == {BobUpper}
RegEmails == {BobMail}
RegPasswords == {PwA}
Identifiers == {Bob, BobMail, Amy}
LoginPasswords == {PwA, PwB}
ResetEmails == {BobMail, NoMail}
NewPasswords == {PwB, PwShort, PwBlank}
UserIds == {1}
TokenInputs == 0..MaxTokens
AtName == <<"a", "@", "b">>
BobPadded == <<" ", "B", "o", "b">>
BobMailUpper == <<"B", "@", "x", ".", "y">>
AccountUsernames == {BobUpper, BobPadded, Amy, AtName}
AccountEmails == {BobMail, BobMailUpper, AmyMail}
AccountIdentifiers == {Bob, Amy, AtName, BobMail, AmyMail}
ChangePasswords == {PwA, PwB, PwShort}
ValIdentifiers == {<<>>, Bob, BobMail}
ValLoginPasswords == {<<>>, PwA, PwB}
ValUsernames ==
    {Rep("u", USERNAME_MIN - 1), BobUpper, Rep("u", USERNAME_MAX),
     Rep("u", USERNAME_MAX + 1), Rep("u", 80), Rep("u", 81)}
ValEmails == {BobMail, AmyMail}
ValPasswords == {PwShort, PwA, PwBlank}
RaceIdentifiers == {Bob}
RaceUsernames == {BobUpper, Bob, Amy}
RaceEmails == {BobMail, AmyMail}
AccountPasswords == {PwA, PwShort}
AccountUserIds == {1, 2}
Updates ==
    {[is_verified |-> TRUE], [is_verified |-> FALSE], [username |-> Amy],
     [bio |-> 0, username |-> Amy]}
\* the clock is read just before, at and just after a deadline set at the
\* last reading
LockDeltas == {LOCK_MINUTES - 1, LOCK_MINUTES, LOCK_MINUTES + 1}
\* for a reset token: at and just after its expiry (a reading with no time
\* elapsed is the one before it)
ResetDeltas == {RESET_EXPIRES_HOURS * 60, RESET_EXPIRES_HOURS * 60 + 1}

----------------------------------------------------------------------------
(* User *)

validate_username(username) ==
    IF username # <<>> THEN Strip(Lower(username)) ELSE username

validate_email(email) ==
    IF email # <<>> THEN Strip(Lower(email)) ELSE email

generate_password_hash(password) == <<"hash", password>>

check_password_hash(pwhash, password) == pwhash = <<"hash", password>>

NoUser ==
    [username |-> <<>>, email |-> <<>>, password_hash |-> <<>>,
     is_active |-> FALSE, is_verified |-> FALSE,
     failed_login_attempts |-> 0, locked_until |-> NULL,
     last_login_at |-> NULL, email_verified_at |-> NULL,
     email_verification_token |-> NULL,
     password_reset_token |-> NULL, password_reset_expires_at |-> NULL]

\* set_password: [ok, user]; ok = FALSE stands for the ValueError
set_password(u, password, t) ==
    IF password = <<>> \/ Len(Strip(password)) < MIN_PASSWORD_LENGTH
    THEN [ok |-> FALSE, user |-> u]
    ELSE [ok |-> TRUE,
          user |-> [u EXCEPT !.password_hash = generate_password_hash(password)]]

\* the lock test written with the counter before the increment
check_password_late_lock(u, password, t) ==
    IF password = <<>> \/ u.password_hash = <<>>
    THEN [valid |-> FALSE, user |-> u]
    ELSE IF check_password_hash(u.password_hash, password)
    THEN [valid |-> TRUE,
          user |-> [u EXCEPT !.failed_login_attempts = 0,
                             !.last_login_at = t,
                             !.locked_until = NULL]]
    ELSE LET current_attempts == u.failed_login_attempts
         IN [valid |-> FALSE,
             user |-> [u EXCEPT
                 !.failed_login_attempts = current_attempts + 1,
                 !.locked_until =
                     IF current_attempts >= LOCK_THRESHOLD
                     THEN t + LOCK_MINUTES
                     ELSE u.locked_until]]

\* a successful check that forgets to reset the counter
check_password_keeps_count(u, password, t) ==
    IF password = <<>> \/ u.password_hash = <<>>
    THEN [valid |-> FALSE, user |-> u]
    ELSE IF check_password_hash(u.password_hash, password)
    THEN [valid |-> TRUE,
          user |-> [u EXCEPT !.last_login_at = t,
                             !.locked_until = NULL]]
    ELSE LET current_attempts == u.failed_login_attempts
         IN [valid |-> FALSE,
             user |-> [u EXCEPT
                 !.failed_login_attempts = current_attempts + 1,
                 !.locked_until =
                     IF current_attempts + 1 >= LOCK_THRESHOLD
                     THEN t + LOCK_MINUTES
                     ELSE u.locked_until]]

\* check_password: [valid, user]
check_password(u, password, t) ==
    IF password = <<>> \/ u.password_hash = <<>>
    THEN [valid |-> FALSE, user |-> u]
    ELSE IF check_password_hash(u.password_hash, password)
    THEN [valid |-> TRUE,
          user |-> [u EXCEPT !.failed_login_attempts = 0,
                             !.last_login_at = t,
                             !.locked_until = NULL]]
    ELSE LET current_attempts == u.failed_login_attempts
         IN [valid |-> FALSE,
             user |-> [u EXCEPT
                 !.failed_login_attempts = current_attempts + 1,
                 !.locked_until =
                     IF current_attempts + 1 >= LOCK_THRESHOLD
                     THEN t + LOCK_MINUTES
                     ELSE u.locked_until]]

\* the expiry comparison reversed
is_account_locked_reversed(u, t) ==
    IF u.locked_until = NULL
    THEN [locked |-> FALSE, user |-> u]
    ELSE IF t < u.locked_until
    THEN [locked |-> FALSE,
          user |-> [u EXCEPT !.locked_until = NULL,
                             !.failed_login_attempts = 0]]
    ELSE [locked |-> TRUE, user |-> u]

\* the lock expiring at locked_until instead of after it
is_account_locked_early(u, t) ==
    IF u.locked_until = NULL
    THEN [locked |-> FALSE, user |-> u]
    ELSE IF t >= u.locked_until
    THEN [locked |-> FALSE,
          user |-> [u EXCEPT !.locked_until = NULL,
                             !.failed_login_attempts = 0]]
    ELSE [locked |-> TRUE, user |-> u]

\* an expired lock cleared without resetting the counter
is_account_locked_keeps_count(u, t) ==
    IF u.locked_until = NULL
    THEN [locked |-> FALSE, user |-> u]
    ELSE IF t > u.locked_until
    THEN [locked |-> FALSE, user |-> [u EXCEPT !.locked_until = NULL]]
    ELSE [locked |-> TRUE, user |-> u]

\* is_account_locked: [locked, user]
is_account_locked(u, t) ==
    IF u.locked_until = NULL
    THEN [locked |-> FALSE, user |-> u]
    ELSE IF t > u.locked_until
    THEN [locked |-> FALSE,
          user |-> [u EXCEPT !.locked_until = NULL,
                             !.failed_login_attempts = 0]]
    ELSE [locked |-> TRUE, user |-> u]

\* an unlock that clears the lock but not the counter
unlock_account_keeps_count(u) == [u EXCEPT !.locked_until = NULL]

unlock_account(u) ==
    [u EXCEPT !.locked_until = NULL, !.failed_login_attempts = 0]

activate(u) == [u EXCEPT !.is_active = TRUE]

deactivate(u) == [u EXCEPT !.is_active = FALSE]

\* User.verify_email
User_verify_email(u, t) ==
    [u EXCEPT !.is_verified = TRUE,
              !.email_verified_at = t,
              !.email_verification_token = NULL]

set_email_verification_token(u, token) ==
    [u EXCEPT !.email_verification_token = token]

\* an issue that keeps the token an account already has
set_password_reset_token_keeps_first(u, token, expires_in_hours, t) ==
    IF u.password_reset_token # NULL
    THEN [u EXCEPT !.password_reset_expires_at = t + expires_in_hours * 60]
    ELSE [u EXCEPT !.password_reset_token = token,
                   !.password_reset_expires_at = t + expires_in_hours * 60]

set_password_reset_token(u, token, expires_in_hours, t) ==
    [u EXCEPT !.password_reset_token = token,
              !.password_reset_expires_at = t + expires_in_hours * 60]

\* a clear that forgets the expiry
clear_password_reset_token_keeps_expiry(u) ==
    [u EXCEPT !.password_reset_token = NULL]

clear_password_reset_token(u) ==
    [u EXCEPT !.password_reset_token = NULL,
              !.password_reset_expires_at = NULL]

\* the validity test without the expiry comparison
is_password_reset_token_valid_no_expiry(u, token, t) ==
    IF u.password_reset_token = NULL \/ u.password_reset_expires_at = NULL
    THEN [valid |-> FALSE, user |-> u]
    ELSE IF u.password_reset_token # token
    THEN [valid |-> FALSE, user |-> u]
    ELSE [valid |-> TRUE, user |-> u]

\* is_password_reset_token_valid: [valid, user]
is_password_reset_token_valid(u, token, t) ==
    IF u.password_reset_token = NULL \/ u.password_reset_expires_at = NULL
    THEN [valid |-> FALSE, user |-> u]
    ELSE IF u.password_reset_token # token
    THEN [valid |-> FALSE, user |-> u]
    ELSE IF t > u.password_reset_expires_at
    THEN [valid |-> FALSE, user |-> clear_password_reset_token(u)]
    ELSE [valid |-> TRUE, user |-> u]

\* query.filter_by(...).first() over the ids S of the matching rows: the
\* first of them, 0 for None
first(S) == IF S = {} THEN 0 ELSE CHOOSE i \in S : \A j \in S : i <= j

\* a lookup that compares the name as given
get_by_username_exact(username) ==
    first({i \in 1..Len(db) : db[i].username = username})

get_by_username(username) ==
    first({i \in 1..Len(db) : db[i].username = Strip(Lower(username))})

get_by_email(email) ==
    first({i \in 1..Len(db) : db[i].email = Strip(Lower(email))})

get_by_reset_token(token) ==
    first({i \in 1..Len(db) : db[i].password_reset_token = token})

\* the unique constraints of the username and email columns, tested by the
\* store when the row u is inserted
unique_violation(u) ==
    \E i \in 1..Len(db) :
        db[i].username = u.username \/ db[i].email = u.email

\* a lookup that takes the first unverified account whatever its token
get_by_verification_token_any(token) ==
    first({i \in 1..Len(db) : ~db[i].is_verified})

get_by_verification_token(token) ==
    first({i \in 1..Len(db) : db[i].email_verification_token = token})

----------------------------------------------------------------------------
(* Results *)

NoCheck == [done |-> FALSE, locked |-> FALSE, failed |-> 0, until |-> NULL]

NoRes ==
    [op |-> "none", uid |-> 0, code |-> "", status |-> 0,
     message |-> "", keys |-> {}, tokens |-> {}, pwChecked |-> FALSE,
     lockchk |-> NoCheck, before |-> NoCheck, token |-> 0]

Fail(op, uid, code, status, message) ==
    [NoRes EXCEPT !.op = op, !.uid = uid, !.code = code,
                  !.status = status, !.message = message,
                  !.keys = {"error", "code"}]

\* AuthenticationError(message, code=..., status_code=...): APIException's
\* constructor has no parameter named code, so the raise is a TypeError,
\* which the controllers turn into a 500
TypeErr(op, uid) ==
    Fail(op, uid, "TypeError", 500, "server error")

LockChk(r) ==
    [done |-> TRUE, locked |-> r.locked,
     failed |-> r.user.failed_login_attempts, until |-> r.user.locked_until]

----------------------------------------------------------------------------
(* AuthService *)

_find_user_by_login(username_or_email) ==
    IF Contains(username_or_email, "@")
    THEN get_by_email(username_or_email)
    ELSE IF get_by_username(username_or_email) # 0
         THEN get_by_username(username_or_email)
         ELSE get_by_email(username_or_email)

\* a lookup miss reported as UserNotFoundError
login_user_not_found_leaks ==
    Fail("login", 0, "USER_NOT_FOUND", 404, "User not found")

\* raise InvalidCredentialsError() for an identifier that matches no account
login_user_not_found ==
    Fail("login", 0, "INVALID_CREDENTIALS", 401, MSG_INVALID_CREDENTIALS)

\* the threshold-crossing failure reported as a locked account
login_invalid_password_locked(uid, lk) ==
    [Fail("login", uid,
          IF lk.user.failed_login_attempts + 1 >= LOCK_THRESHOLD
          THEN "ACCOUNT_LOCKED" ELSE "INVALID_CREDENTIALS",
          IF lk.user.failed_login_attempts + 1 >= LOCK_THRESHOLD
          THEN 423 ELSE 401,
          MSG_INVALID_CREDENTIALS)
     EXCEPT !.lockchk = LockChk(lk), !.pwChecked = TRUE]

\* raise InvalidCredentialsError() after a password that does not verify
login_invalid_password(uid, lk) ==
    [Fail("login", uid, "INVALID_CREDENTIALS", 401, MSG_INVALID_CREDENTIALS)
     EXCEPT !.lockchk = LockChk(lk), !.pwChecked = TRUE]

\* the is_active test made after the password check instead of first
login_password_before_active(username_or_email, password) ==
    LET uid == _find_user_by_login(username_or_email)
    IN
    /\ IF uid = 0
       THEN /\ res' = login_user_not_found
            /\ db' = db
       ELSE LET lk == is_account_locked(db[uid], now) IN
            IF lk.locked
            THEN /\ res' = [Fail("login", uid, "BUSINESS_LOGIC_ERROR", 400,
                                 MSG_LOCKED) EXCEPT !.lockchk = LockChk(lk)]
                 /\ db' = db
            ELSE LET cp == check_password(lk.user, password, now) IN
                 IF ~cp.valid
                 THEN /\ res' = login_invalid_password(uid, lk)
                      /\ db' = [db EXCEPT ![uid] = cp.user]
                 ELSE IF ~db[uid].is_active
                 THEN /\ res' = Fail("login", uid, "BUSINESS_LOGIC_ERROR", 400,
                                     MSG_DEACTIVATED)
                      /\ db' = db
                 ELSE /\ res' = [NoRes EXCEPT
                                   !.op = "login", !.uid = uid,
                                   !.code = "OK", !.status = 200,
                                   !.message = MSG_LOGIN_OK,
                                   !.keys = {"user", "tokens", "message"},
                                   !.tokens = {"access_token", "refresh_token"},
                                   !.pwChecked = TRUE,
                                   !.lockchk = LockChk(lk)]
                      /\ db' = [db EXCEPT ![uid] = cp.user]
    /\ UNCHANGED <<now, ticks, nextTok, consumed, inflight>>

login(username_or_email, password) ==
    LET uid == _find_user_by_login(username_or_email)
    IN
    /\ IF uid = 0
       THEN /\ res' = login_user_not_found
            /\ db' = db
       ELSE IF ~db[uid].is_active
       THEN /\ res' = Fail("login", uid, "BUSINESS_LOGIC_ERROR", 400,
                           MSG_DEACTIVATED)
            /\ db' = db
       ELSE LET lk == is_account_locked(db[uid], now) IN
            IF lk.locked
            THEN /\ res' = [Fail("login", uid, "BUSINESS_LOGIC_ERROR", 400,
                                 MSG_LOCKED) EXCEPT !.lockchk = LockChk(lk)]
                 /\ db' = db
            ELSE LET cp == check_password(lk.user, password, now) IN
                 IF ~cp.valid
                 THEN /\ res' = login_invalid_password(uid, lk)
                      /\ db' = [db EXCEPT ![uid] = cp.user]
                 ELSE /\ res' = [NoRes EXCEPT
                                   !.op = "login", !.uid = uid,
                                   !.code = "OK", !.status = 200,
                                   !.message = MSG_LOGIN_OK,
                                   !.keys = {"user", "tokens", "message"},
                                   !.tokens = {"access_token", "refresh_token"},
                                   !.pwChecked = TRUE,
                                   !.lockchk = LockChk(lk)]
                      /\ db' = [db EXCEPT ![uid] = cp.user]
    /\ UNCHANGED <<now, ticks, nextTok, consumed, inflight>>

\* a lookup that does not look at the lock
user_lookup_callback_ignores_lock(identity) ==
    IF identity \in 1..Len(db) /\ db[identity].is_active
    THEN [found |-> TRUE, user |-> db[identity]]
    ELSE [found |-> FALSE, user |-> NoUser]

\* user_lookup_callback: [found, user]; found = FALSE stands for None, on
\* which the request is answered 401
user_lookup_callback(identity) ==
    IF identity \in 1..Len(db) /\ db[identity].is_active
    THEN LET lk == is_account_locked(db[identity], now) IN
         IF ~lk.locked
         THEN [found |-> TRUE, user |-> lk.user]
         ELSE [found |-> FALSE, user |-> NoUser]
    ELSE [found |-> FALSE, user |-> NoUser]

\* GET /me with a token naming the account identity, which has logged in
get_current_user_info(identity) ==
    /\ identity \in 1..Len(db)
    /\ db[identity].last_login_at # NULL
    /\ res' = IF user_lookup_callback(identity).found
              THEN [NoRes EXCEPT !.op = "get_current_user_info",
                                 !.uid = identity,
                                 !.code = "OK", !.status = 200,
                                 !.keys = {"success", "data"}]
              ELSE Fail("get_current_user_info", identity,
                        "USER_LOOKUP_ERROR", 401, "Error loading the user")
    /\ UNCHANGED <<db, now, ticks, nextTok, consumed, inflight>>

\* a change_password that commits the failed check of the current password
change_password_counts_failure(identity, current_password, new_password) ==
    LET lu == user_lookup_callback(identity)
        c1 == check_password(lu.user, current_password, now)
        c2 == check_password(c1.user, new_password, now)
        sp == set_password(c2.user, new_password, now)
    IN
    /\ identity \in 1..Len(db)
    /\ db[identity].last_login_at # NULL
    /\ IF ~lu.found
       THEN /\ res' = Fail("change_password", identity,
                           "USER_LOOKUP_ERROR", 401, "Error loading the user")
            /\ db' = db
       ELSE IF current_password = <<>> \/ new_password = <<>>
       THEN /\ res' = TypeErr("change_password", identity)
            /\ db' = db
       ELSE IF ~c1.valid
       THEN /\ res' = TypeErr("change_password", identity)
            /\ db' = [db EXCEPT ![identity] = c1.user]
       ELSE IF Len(new_password) < MIN_PASSWORD_LENGTH
       THEN /\ res' = [TypeErr("change_password", identity)
                       EXCEPT !.pwChecked = TRUE]
            /\ db' = db
       ELSE IF c2.valid
       THEN /\ res' = [TypeErr("change_password", identity)
                       EXCEPT !.pwChecked = TRUE]
            /\ db' = db
       ELSE IF ~sp.ok
       THEN /\ res' = [TypeErr("change_password", identity)
                       EXCEPT !.pwChecked = TRUE]
            /\ db' = db
       ELSE /\ res' = [NoRes EXCEPT
                         !.op = "change_password", !.uid = identity,
                         !.code = "OK", !.status = 200,
                         !.message = MSG_CHANGE_OK,
                         !.keys = {"message"},
                         !.pwChecked = TRUE]
            /\ db' = [db EXCEPT ![identity] = sp.user]
    /\ UNCHANGED <<now, ticks, nextTok, consumed, inflight>>

\* POST /password/change with a token naming the account identity, which
\* has logged in
change_password(identity, current_password, new_password) ==
    LET lu == user_lookup_callback(identity)
        c1 == check_password(lu.user, current_password, now)
        c2 == check_password(c1.user, new_password, now)
        sp == set_password(c2.user, new_password, now)
    IN
    /\ identity \in 1..Len(db)
    /\ db[identity].last_login_at # NULL
    /\ IF ~lu.found
       THEN /\ res' = Fail("change_password", identity,
                           "USER_LOOKUP_ERROR", 401, "Error loading the user")
            /\ db' = db
       ELSE IF current_password = <<>> \/ new_password = <<>>
       THEN /\ res' = TypeErr("change_password", identity)
            /\ db' = db
       ELSE IF ~c1.valid
       THEN /\ res' = TypeErr("change_password", identity)
            /\ db' = db
       ELSE IF Len(new_password) < MIN_PASSWORD_LENGTH
       THEN /\ res' = [TypeErr("change_password", identity)
                       EXCEPT !.pwChecked = TRUE]
            /\ db' = db
       ELSE IF c2.valid
       THEN /\ res' = [TypeErr("change_password", identity)
                       EXCEPT !.pwChecked = TRUE]
            /\ db' = db
       ELSE IF ~sp.ok
       THEN /\ res' = [TypeErr("change_password", identity)
                       EXCEPT !.pwChecked = TRUE]
            /\ db' = db
       ELSE /\ res' = [NoRes EXCEPT
                         !.op = "change_password", !.uid = identity,
                         !.code = "OK", !.status = 200,
                         !.message = MSG_CHANGE_OK,
                         !.keys = {"message"},
                         !.pwChecked = TRUE]
            /\ db' = [db EXCEPT ![identity] = sp.user]
    /\ UNCHANGED <<now, ticks, nextTok, consumed, inflight>>

\* refresh_token: current_user is the account a refresh token names, so one
\* that has logged in
refresh_token(user_id) ==
    /\ user_id \in 1..Len(db)
    /\ db[user_id].last_login_at # NULL
    /\ IF ~db[user_id].is_active
       THEN res' = TypeErr("refresh_token", user_id)
       ELSE LET lk == is_account_locked(db[user_id], now) IN
            IF lk.locked
            THEN res' = [TypeErr("refresh_token", user_id)
                         EXCEPT !.lockchk = LockChk(lk)]
            ELSE res' = [NoRes EXCEPT
                           !.op = "refresh_token", !.uid = user_id,
                           !.code = "OK", !.status = 200,
                           !.message = MSG_REFRESH_OK,
                           !.keys = {"access_token", "token_type",
                                     "expires_in", "message"},
                           !.tokens = {"access_token"},
                           !.lockchk = LockChk(lk)]
    /\ UNCHANGED <<db, now, ticks, nextTok, consumed, inflight>>

\* login in an execution where db.session.commit() raises: the handler
\* rolls back and, after a password that does not verify, still raises
\* InvalidCredentialsError
login_commit_failure(username_or_email, password) ==
    LET uid == _find_user_by_login(username_or_email)
    IN
    /\ uid # 0
    /\ db[uid].is_active
    /\ LET lk == is_account_locked(db[uid], now)
           cp == check_password(lk.user, password, now)
       IN
       /\ ~lk.locked
       /\ res' = IF ~cp.valid
                 THEN login_invalid_password(uid, lk)
                 ELSE [TypeErr("login", uid) EXCEPT !.lockchk = LockChk(lk),
                                                    !.pwChecked = TRUE]
    /\ UNCHANGED <<db, now, ticks, nextTok, consumed, inflight>>

\* the requests being served at the same time, and what a register call
\* holds between its duplicate checks and its commit
Procs == {1, 2}

Idle ==
    [pc |-> "idle", username |-> <<>>, email |-> <<>>, password |-> <<>>,
     uid |-> 0, row |-> NoUser, user |-> NoUser]

validate_field_length(value, min, max) ==
    Len(value) >= min /\ Len(value) <= max

register(username, email, password) ==
    /\ IF ~(/\ validate_field_length(username, USERNAME_MIN, USERNAME_MAX)
            /\ validate_field_length(email, EMAIL_MIN, EMAIL_MAX)
            /\ validate_field_length(password, MIN_PASSWORD_LENGTH, PASSWORD_MAX))
       THEN /\ res' = Fail("register", 0, "VALIDATION_ERROR", 400,
                           "Field length validation failed")
            /\ UNCHANGED <<db, nextTok>>
       ELSE IF get_by_username(username) # 0 \/ get_by_email(email) # 0
       THEN /\ res' = Fail("register", 0, "DUPLICATE_RESOURCE", 409,
                           "User already exists")
            /\ UNCHANGED <<db, nextTok>>
       ELSE LET u0 == [NoUser EXCEPT !.username = validate_username(username),
                                     !.email = validate_email(email),
                                     !.is_active = TRUE,
                                     !.is_verified = FALSE]
                sp == set_password(u0, password, now)
            IN
            IF ~sp.ok \/ unique_violation(sp.user)
            THEN /\ res' = TypeErr("register", 0)
                 /\ UNCHANGED <<db, nextTok>>
            ELSE /\ nextTok <= MaxTokens
                 /\ db' = Append(db, set_email_verification_token(sp.user, nextTok))
                 /\ nextTok' = nextTok + 1
                 /\ res' = [NoRes EXCEPT
                              !.op = "register",
                              !.uid = Len(db) + 1,
                              !.code = "OK", !.status = 201,
                              !.message = MSG_REGISTER_OK,
                              !.keys = {"user", "verification_token", "message"},
                              !.tokens = {"verification_token"}]
    /\ UNCHANGED <<now, ticks, consumed, inflight>>

\* login up to the lock check, for the request p: the session of the
\* request holds the row as loaded (row) and as the lock check left it (user)
login_read(p, username_or_email, password) ==
    LET uid == _find_user_by_login(username_or_email)
    IN
    /\ inflight[p].pc = "idle"
    /\ IF uid = 0
       THEN /\ res' = login_user_not_found
            /\ inflight' = inflight
       ELSE IF ~db[uid].is_active
       THEN /\ res' = Fail("login", uid, "BUSINESS_LOGIC_ERROR", 400,
                           MSG_DEACTIVATED)
            /\ inflight' = inflight
       ELSE LET lk == is_account_locked(db[uid], now) IN
            IF lk.locked
            THEN /\ res' = [Fail("login", uid, "BUSINESS_LOGIC_ERROR", 400,
                                 MSG_LOCKED) EXCEPT !.lockchk = LockChk(lk)]
                 /\ inflight' = inflight
            ELSE /\ res' = NoRes
                 /\ inflight' = [inflight EXCEPT ![p] =
                                    [Idle EXCEPT !.pc = "check",
                                                 !.password = password,
                                                 !.uid = uid,
                                                 !.row = db[uid],
                                                 !.user = lk.user]]
    /\ UNCHANGED <<db, now, ticks, nextTok, consumed>>

\* the UPDATE a commit sends: the columns whose value in the session (final)
\* differs from the value loaded (row) are written over the stored row
flush(row, final, stored) ==
    [f \in DOMAIN stored |-> IF final[f] # row[f] THEN final[f] ELSE stored[f]]

\* a password check that re-reads the stored row before it counts
login_write_atomic(p) ==
    LET uid == inflight[p].uid
        cp == check_password(db[uid], inflight[p].password, now)
        lk == [locked |-> FALSE, user |-> inflight[p].user]
    IN
    /\ inflight[p].pc = "check"
    /\ inflight' = [inflight EXCEPT ![p] = Idle]
    /\ db' = [db EXCEPT ![uid] = cp.user]
    /\ res' = [(IF ~cp.valid THEN login_invalid_password(uid, lk)
                ELSE [NoRes EXCEPT
                        !.op = "login", !.uid = uid,
                        !.code = "OK", !.status = 200,
                        !.message = MSG_LOGIN_OK,
                        !.keys = {"user", "tokens", "message"},
                        !.tokens = {"access_token", "refresh_token"},
                        !.pwChecked = TRUE,
                        !.lockchk = LockChk(lk)])
               EXCEPT !.before =
                   [done |-> TRUE, locked |-> FALSE,
                    failed |-> db[uid].failed_login_attempts,
                    until |-> db[uid].locked_until]]
    /\ UNCHANGED <<now, ticks, nextTok, consumed>>

\* login from the password check to the commit, for the request p;
\* res.before is the stored counter and lock the commit wrote over
login_write(p) ==
    LET uid == inflight[p].uid
        cp == check_password(inflight[p].user, inflight[p].password, now)
        lk == [locked |-> FALSE, user |-> inflight[p].user]
    IN
    /\ inflight[p].pc = "check"
    /\ inflight' = [inflight EXCEPT ![p] = Idle]
    /\ db' = [db EXCEPT ![uid] = flush(inflight[p].row, cp.user, db[uid])]
    /\ res' = [(IF ~cp.valid THEN login_invalid_password(uid, lk)
                ELSE [NoRes EXCEPT
                        !.op = "login", !.uid = uid,
                        !.code = "OK", !.status = 200,
                        !.message = MSG_LOGIN_OK,
                        !.keys = {"user", "tokens", "message"},
                        !.tokens = {"access_token", "refresh_token"},
                        !.pwChecked = TRUE,
                        !.lockchk = LockChk(lk)])
               EXCEPT !.before =
                   [done |-> TRUE, locked |-> FALSE,
                    failed |-> db[uid].failed_login_attempts,
                    until |-> db[uid].locked_until]]
    /\ UNCHANGED <<now, ticks, nextTok, consumed>>

\* register up to its duplicate checks, for the request p
register_check(p, username, email, password) ==
    /\ inflight[p].pc = "idle"
    /\ IF ~(/\ validate_field_length(username, USERNAME_MIN, USERNAME_MAX)
            /\ validate_field_length(email, EMAIL_MIN, EMAIL_MAX)
            /\ validate_field_length(password, MIN_PASSWORD_LENGTH, PASSWORD_MAX))
       THEN /\ res' = Fail("register", 0, "VALIDATION_ERROR", 400,
                           "Field length validation failed")
            /\ inflight' = inflight
       ELSE IF get_by_username(username) # 0 \/ get_by_email(email) # 0
       THEN /\ res' = Fail("register", 0, "DUPLICATE_RESOURCE", 409,
                           "User already exists")
            /\ inflight' = inflight
       ELSE /\ res' = NoRes
            /\ inflight' = [inflight EXCEPT ![p] =
                               [Idle EXCEPT !.pc = "create",
                                            !.username = username,
                                            !.email = email,
                                            !.password = password]]
    /\ UNCHANGED <<db, now, ticks, nextTok, consumed>>

\* the new row of the request p
register_user(p) ==
    set_password([NoUser EXCEPT
                     !.username = validate_username(inflight[p].username),
                     !.email = validate_email(inflight[p].email),
                     !.is_active = TRUE,
                     !.is_verified = FALSE],
                 inflight[p].password, now)

\* register from the creation of the row to the commit, for the request p
register_create(p) ==
    /\ inflight[p].pc = "create"
    /\ inflight' = [inflight EXCEPT ![p] = Idle]
    /\ LET sp == register_user(p) IN
       IF ~sp.ok \/ unique_violation(sp.user)
       THEN /\ res' = TypeErr("register", 0)
            /\ UNCHANGED <<db, nextTok>>
       ELSE /\ nextTok <= MaxTokens
            /\ db' = Append(db, set_email_verification_token(sp.user, nextTok))
            /\ nextTok' = nextTok + 1
            /\ res' = [NoRes EXCEPT
                         !.op = "register",
                         !.uid = Len(db) + 1,
                         !.code = "OK", !.status = 201,
                         !.message = MSG_REGISTER_OK,
                         !.keys = {"user", "verification_token", "message"},
                         !.tokens = {"verification_token"}]
    /\ UNCHANGED <<now, ticks, consumed>>

request_password_reset(email) ==
    LET uid == get_by_email(email)
    IN
    /\ IF uid = 0 \/ ~db[uid].is_active
       THEN /\ res' = [NoRes EXCEPT
                         !.op = "request_password_reset",
                         !.uid = uid, !.code = "OK", !.status = 200,
                         !.message = MSG_RESET_GENERIC,
                         !.keys = {"message"}]
            /\ UNCHANGED <<db, nextTok>>
       ELSE /\ nextTok <= MaxTokens
            /\ db' = [db EXCEPT ![uid] =
                         set_password_reset_token(db[uid], nextTok,
                                                  RESET_EXPIRES_HOURS, now)]
            /\ nextTok' = nextTok + 1
            /\ res' = [NoRes EXCEPT
                         !.op = "request_password_reset",
                         !.uid = uid, !.code = "OK", !.status = 200,
                         !.message = MSG_RESET_TOKEN,
                         !.keys = {"reset_token", "expires_in", "message"},
                         !.tokens = {"reset_token"}]
    /\ UNCHANGED <<now, ticks, consumed, inflight>>

\* res.token is the token the request presented
reset_password(token, new_password) ==
    LET uid == get_by_reset_token(token)
    IN
    /\ IF Len(new_password) < MIN_PASSWORD_LENGTH
       THEN /\ res' = [TypeErr("reset_password", 0) EXCEPT !.token = token]
            /\ UNCHANGED <<db, consumed>>
       ELSE IF uid = 0
       THEN /\ res' = [TypeErr("reset_password", 0) EXCEPT !.token = token]
            /\ UNCHANGED <<db, consumed>>
       ELSE LET tv == is_password_reset_token_valid(db[uid], token, now) IN
            IF ~tv.valid
            THEN /\ res' = [TypeErr("reset_password", uid) EXCEPT !.token = token]
                 /\ UNCHANGED <<db, consumed>>
            ELSE LET sp == set_password(tv.user, new_password, now) IN
                 IF ~sp.ok
                 THEN /\ res' = [TypeErr("reset_password", uid) EXCEPT !.token = token]
                      /\ UNCHANGED <<db, consumed>>
                 ELSE /\ res' = [NoRes EXCEPT
                                   !.op = "reset_password",
                                   !.uid = uid, !.code = "OK", !.status = 200,
                                   !.message = MSG_RESET_OK,
                                   !.keys = {"message"},
                                   !.token = token,
                                   !.before =
                                     [done |-> TRUE, locked |-> FALSE,
                                      failed |-> db[uid].failed_login_attempts,
                                      until |-> db[uid].locked_until]]
                      /\ db' = [db EXCEPT ![uid] =
                            unlock_account(clear_password_reset_token(sp.user))]
                      /\ consumed' = consumed \cup {token}
    /\ UNCHANGED <<now, ticks, nextTok, inflight>>

\* verify_email: token 0 stands for the empty string
verify_email(token) ==
    LET uid == get_by_verification_token(token)
    IN
    /\ IF token = 0
       THEN /\ res' = TypeErr("verify_email", 0)
            /\ UNCHANGED <<db, consumed>>
       ELSE IF uid = 0
       THEN /\ res' = TypeErr("verify_email", 0)
            /\ UNCHANGED <<db, consumed>>
       ELSE IF db[uid].is_verified
       THEN /\ res' = [NoRes EXCEPT
                         !.op = "verify_email", !.uid = uid,
                         !.code = "OK", !.status = 200,
                         !.message = MSG_ALREADY_VERIFIED,
                         !.keys = {"message"}]
            /\ UNCHANGED <<db, consumed>>
       ELSE /\ res' = [NoRes EXCEPT
                         !.op = "verify_email", !.uid = uid,
                         !.code = "OK", !.status = 200,
                         !.message = MSG_VERIFIED,
                         !.keys = {"user", "message"}]
            /\ db' = [db EXCEPT ![uid] = User_verify_email(db[uid], now)]
            /\ consumed' = consumed \cup {token}
    /\ UNCHANGED <<now, ticks, nextTok, inflight>>

----------------------------------------------------------------------------
(* UserService *)

AdminRes(op, uid, code, status) ==
    [NoRes EXCEPT !.op = op, !.uid = IF uid \in 1..Len(db) THEN uid ELSE 0,
                  !.code = code, !.status = status]

activate_user(user_id) ==
    /\ IF user_id \notin 1..Len(db)
       THEN /\ res' = AdminRes("activate_user", user_id, "USER_NOT_FOUND", 404)
            /\ db' = db
       ELSE /\ res' = AdminRes("activate_user", user_id, "OK", 200)
            /\ db' = IF db[user_id].is_active THEN db
                     ELSE [db EXCEPT ![user_id] = activate(db[user_id])]
    /\ UNCHANGED <<now, ticks, nextTok, consumed, inflight>>

deactivate_user(user_id) ==
    /\ IF user_id \notin 1..Len(db)
       THEN /\ res' = AdminRes("deactivate_user", user_id, "USER_NOT_FOUND", 404)
            /\ db' = db
       ELSE /\ res' = AdminRes("deactivate_user", user_id, "OK", 200)
            /\ db' = IF ~db[user_id].is_active THEN db
                     ELSE [db EXCEPT ![user_id] = deactivate(db[user_id])]
    /\ UNCHANGED <<now, ticks, nextTok, consumed, inflight>>

\* update_user: update_data is a record of the fields to set
allowed_fields ==
    {"first_name", "last_name", "bio", "is_active", "is_verified", "is_admin"}

\* setattr(user, field, value): username and email pass through their
\* validators; a field outside the modelled columns leaves them as they are
setattr(u, field, value) ==
    IF field \notin DOMAIN u THEN u
    ELSE [u EXCEPT ![field] =
             IF field = "username" THEN validate_username(value)
             ELSE IF field = "email" THEN validate_email(value)
             ELSE value]

RECURSIVE apply_updates(_, _, _)
apply_updates(u, data, fields) ==
    IF fields = {} THEN u
    ELSE LET f == CHOOSE x \in fields : TRUE
         IN apply_updates(setattr(u, f, data[f]), data, fields \ {f})

update_user(user_id, update_data) ==
    LET filtered_data == DOMAIN update_data \cap allowed_fields
        has_username == "username" \in DOMAIN update_data
        has_email == "email" \in DOMAIN update_data
    IN
    /\ IF user_id \notin 1..Len(db)
       THEN /\ res' = AdminRes("update_user", user_id, "USER_NOT_FOUND", 404)
            /\ db' = db
       ELSE IF filtered_data = {}
       THEN /\ res' = AdminRes("update_user", user_id, "NO_UPDATE_FIELDS", 400)
            /\ db' = db
       ELSE IF /\ has_username
               /\ get_by_username(update_data["username"]) \notin {0, user_id}
       THEN /\ res' = AdminRes("update_user", user_id, "USERNAME_EXISTS", 409)
            /\ db' = db
       ELSE IF /\ has_email
               /\ get_by_email(update_data["email"]) \notin {0, user_id}
       THEN /\ res' = AdminRes("update_user", user_id, "EMAIL_EXISTS", 409)
            /\ db' = db
       ELSE /\ res' = AdminRes("update_user", user_id, "OK", 200)
            /\ db' = [db EXCEPT ![user_id] =
                         apply_updates(db[user_id], update_data,
                             filtered_data
                                 \cup (IF has_username THEN {"username"} ELSE {})
                                 \cup (IF has_email THEN {"email"} ELSE {}))]
    /\ UNCHANGED <<now, ticks, nextTok, consumed, inflight>>

unlock_user_account(user_id) ==
    /\ IF user_id \notin 1..Len(db)
       THEN /\ res' = AdminRes("unlock_user_account", user_id,
                               "USER_NOT_FOUND", 404)
            /\ db' = db
       ELSE LET lk == is_account_locked(db[user_id], now) IN
            /\ res' = [AdminRes("unlock_user_account", user_id, "OK", 200)
                       EXCEPT !.lockchk = LockChk(lk)]
            /\ db' = IF ~lk.locked THEN db
                     ELSE [db EXCEPT ![user_id] = unlock_account(lk.user)]
    /\ UNCHANGED <<now, ticks, nextTok, consumed, inflight>>

----------------------------------------------------------------------------
(* Clock *)

Tick(d) ==
    /\ ticks < MaxTicks
    /\ now' = now + d
    /\ ticks' = ticks + 1
    /\ res' = NoRes
    /\ UNCHANGED <<db, nextTok, consumed, inflight>>

----------------------------------------------------------------------------

Init ==
    /\ db = <<>>
    /\ now = 0
    /\ ticks = 0
    /\ nextTok = 1
    /\ consumed = {}
    /\ res = NoRes
    /\ inflight = [p \in Procs |-> Idle]

Next ==
    \/ \E i \in Identifiers, p \in LoginPasswords : login(i, p)
    \/ \E n \in RegUsernames, e \in RegEmails, p \in RegPasswords :
           register(n, e, p)
    \/ \E i \in UserIds : activate_user(i)
    \/ \E i \in UserIds : deactivate_user(i)
    \/ \E i \in UserIds : unlock_user_account(i)
    \/ \E i \in UserIds : refresh_token(i)
    \/ \E i \in UserIds : get_current_user_info(i)
    \/ \E i \in UserIds, c \in LoginPasswords, n \in ChangePasswords :
           change_password(i, c, n)
    \/ \E d \in LockDeltas : Tick(d)

Spec == Init /\ [][Next]_vars

NextReset ==
    \/ \E i \in Identifiers, p \in LoginPasswords : login(i, p)
    \/ \E n \in RegUsernames, e \in RegEmails, p \in RegPasswords :
           register(n, e, p)
    \/ \E e \in ResetEmails : request_password_reset(e)
    \/ \E k \in TokenInputs, p \in NewPasswords : reset_password(k, p)
    \/ \E i \in UserIds : deactivate_user(i)
    \/ \E d \in ResetDeltas : Tick(d)

SpecReset == Init /\ [][NextReset]_vars

NextAccounts ==
    \/ \E n \in AccountUsernames, e \in AccountEmails, p \in AccountPasswords :
           register(n, e, p)
    \/ \E k \in TokenInputs : verify_email(k)
    \/ \E i \in AccountUserIds, d \in Updates : update_user(i, d)
    \/ \E i \in AccountIdentifiers, p \in RegPasswords : login(i, p)

SpecAccounts == Init /\ [][NextAccounts]_vars

NextFaulty ==
    \/ \E i \in Identifiers, p \in LoginPasswords : login(i, p)
    \/ \E i \in Identifiers, p \in LoginPasswords : login_commit_failure(i, p)
    \/ \E n \in RegUsernames, e \in RegEmails, p \in RegPasswords :
           register(n, e, p)
    \/ \E d \in LockDeltas : Tick(d)

SpecFaulty == Init /\ [][NextFaulty]_vars

NextValidation ==
    \/ \E i \in ValIdentifiers, p \in ValLoginPasswords : login(i, p)
    \/ \E n \in ValUsernames, e \in ValEmails, p \in ValPasswords :
           register(n, e, p)

SpecValidation == Init /\ [][NextValidation]_vars

NextLoginRace ==
    \/ \E n \in RegUsernames, e \in RegEmails, p \in RegPasswords :
           register(n, e, p)
    \/ \E p \in Procs, i \in RaceIdentifiers, pw \in LoginPasswords :
           login_read(p, i, pw)
    \/ \E p \in Procs : login_write(p)
    \/ \E d \in LockDeltas : Tick(d)

SpecLoginRace == Init /\ [][NextLoginRace]_vars

NextRace ==
    \/ \E p \in Procs, n \in RaceUsernames, e \in RaceEmails,
          pw \in RegPasswords : register_check(p, n, e, pw)
    \/ \E p \in Procs : register_create(p)
    \/ \E k \in TokenInputs : verify_email(k)

SpecRace == Init /\ [][NextRace]_vars

----------------------------------------------------------------------------
(* Properties *)

Users == 1..Len(db)

\* the account u is the one the identifier i names
Matches(u, i) ==
    db[u].username = Strip(Lower(i)) \/ db[u].email = Strip(Lower(i))

\* the supplied password p is the one stored for u
Verifies(u, p) == db[u].password_hash = <<"hash", p>>

\* C1: login issues access and refresh tokens only if an account matching
\* the identifier exists, is active, is not locked at the time of the call
\* and the supplied password verifies against the stored hash.
C1_TokensOnlyForValidLogin ==
    [][\A i \in Identifiers, p \in LoginPasswords :
        (res'.tokens # {} /\ login(i, p)) =>
            \E u \in Users :
                /\ res'.uid = u
                /\ Matches(u, i)
                /\ db[u].is_active
                /\ (db[u].locked_until = NULL \/ now > db[u].locked_until)
                /\ Verifies(u, p)]_vars

C1_Witness ==
    /\ res.op = "login"
    /\ res.tokens = {"access_token", "refresh_token"}
    /\ db[res.uid].last_login_at = now

\* C2: a failed password check on an unlocked account with counter c <= 4
\* leaves the counter at c + 1, unlocked while c + 1 <= 4, and locked until
\* now + 30 minutes when c + 1 = 5; so k consecutive failures from 0 count
\* to k and the 5th locks.
C2_FailuresCountToLock ==
    [][\A i \in Identifiers, p \in LoginPasswords : \A u \in Users :
        (/\ res'.uid = u /\ res'.pwChecked /\ res'.tokens = {}
         /\ db[u].locked_until = NULL
         /\ db[u].failed_login_attempts <= 4
         /\ login(i, p)) =>
            LET k == db[u].failed_login_attempts + 1 IN
            /\ db'[u].failed_login_attempts = k
            /\ (k <= 4 => db'[u].locked_until = NULL)
            /\ (k = 5 => db'[u].locked_until = now + 30)]_vars

C2_Witness ==
    /\ res.op = "login" /\ res.pwChecked /\ res.tokens = {}
    /\ db[res.uid].failed_login_attempts = 5
    /\ db[res.uid].locked_until = now + 30

\* C3: while an account is locked, a login for it, with any password, fails
\* without a password check, issues no token and leaves the counter and
\* locked_until as they were.
C3_LockedLoginChangesNothing ==
    [][\A i \in Identifiers, p \in LoginPasswords : \A u \in Users :
        (/\ Matches(u, i)
         /\ db[u].locked_until # NULL
         /\ now <= db[u].locked_until
         /\ login(i, p)) =>
            /\ res'.code # "OK"
            /\ res'.tokens = {}
            /\ ~res'.pwChecked
            /\ db'[u].failed_login_attempts = db[u].failed_login_attempts
            /\ db'[u].locked_until = db[u].locked_until]_vars

C3_Witness ==
    /\ res.op = "login" /\ res.uid # 0
    /\ res.lockchk.done /\ res.lockchk.locked
    /\ db[res.uid].is_active
    /\ now <= db[res.uid].locked_until

\* C4 as stated: a lock check strictly before locked_until reports locked,
\* and a lock check at locked_until or later reports unlocked, resets the
\* counter and clears locked_until.
C4_UnlockedAtLockedUntil ==
    [][\A u \in Users :
        (res'.lockchk.done /\ res'.uid = u /\ db[u].locked_until # NULL) =>
            IF now < db[u].locked_until
            THEN res'.lockchk.locked
            ELSE /\ ~res'.lockchk.locked
                 /\ res'.lockchk.failed = 0
                 /\ res'.lockchk.until = NULL]_vars

\* C4 as amended: a lock check at or before locked_until reports locked and
\* changes nothing; a lock check strictly after locked_until reports
\* unlocked, resets the counter and clears locked_until.
C4_UnlockedAfterLockedUntil ==
    [][\A u \in Users :
        (res'.lockchk.done /\ res'.uid = u /\ db[u].locked_until # NULL) =>
            IF now <= db[u].locked_until
            THEN /\ res'.lockchk.locked
                 /\ res'.lockchk.failed = db[u].failed_login_attempts
                 /\ res'.lockchk.until = db[u].locked_until
            ELSE /\ ~res'.lockchk.locked
                 /\ res'.lockchk.failed = 0
                 /\ res'.lockchk.until = NULL]_vars

C4_Witness ==
    /\ res.op = "unlock_user_account" /\ res.uid # 0
    /\ res.lockchk.done /\ ~res.lockchk.locked
    /\ res.lockchk.failed = 0 /\ res.lockchk.until = NULL
    /\ db[res.uid].locked_until # NULL
    /\ now > db[res.uid].locked_until

\* C5: a login whose password check succeeds leaves the counter at 0 and
\* locked_until null and records last_login_at = now, whatever the counter
\* was before.
C5_SuccessResets ==
    [][\A i \in Identifiers, p \in LoginPasswords : \A u \in Users :
        (res'.uid = u /\ res'.code = "OK" /\ login(i, p)) =>
            /\ db'[u].failed_login_attempts = 0
            /\ db'[u].locked_until = NULL
            /\ db'[u].last_login_at = now]_vars

C5_Witness ==
    /\ res.op = "login" /\ res.code = "OK"
    /\ res.lockchk.failed = 4
    /\ db[res.uid].failed_login_attempts = 0

\* a wrong-password login against an active, unlocked account that has
\* never logged in
WrongPasswordOnFresh(u, i, p) ==
    /\ Matches(u, i) /\ ~Verifies(u, p)
    /\ db[u].is_active
    /\ db[u].last_login_at = NULL
    /\ db[u].locked_until = NULL
    /\ db[u].failed_login_attempts <= 4
    /\ login(i, p)

\* C6 as stated: wrong-password attempts 1 to 4 fail with
\* INVALID_CREDENTIALS and leave the account unlocked with the counter at
\* the attempt number; the 5th fails with ACCOUNT_LOCKED.
C6_FifthIsAccountLocked ==
    [][\A i \in Identifiers, p \in LoginPasswords : \A u \in Users :
        WrongPasswordOnFresh(u, i, p) =>
            LET k == db[u].failed_login_attempts + 1 IN
            /\ (k <= 4 => /\ res'.code = "INVALID_CREDENTIALS"
                          /\ db'[u].failed_login_attempts = k
                          /\ db'[u].locked_until = NULL)
            /\ (k = 5 => res'.code = "ACCOUNT_LOCKED")]_vars

\* C6 as amended: wrong-password attempts 1 to 5 all fail with
\* INVALID_CREDENTIALS (401); attempts 1 to 4 leave the account unlocked
\* with the counter at the attempt number, and the 5th leaves it locked
\* with the counter at 5.
C6_FifthIsInvalidCredentials ==
    [][\A i \in Identifiers, p \in LoginPasswords : \A u \in Users :
        WrongPasswordOnFresh(u, i, p) =>
            LET k == db[u].failed_login_attempts + 1 IN
            /\ res'.code = "INVALID_CREDENTIALS"
            /\ res'.status = 401
            /\ db'[u].failed_login_attempts = k
            /\ (k <= 4 => db'[u].locked_until = NULL)
            /\ (k = 5 => db'[u].locked_until # NULL)]_vars

C6_Witness ==
    /\ res.op = "login" /\ res.code = "INVALID_CREDENTIALS"
    /\ res.uid # 0
    /\ db[res.uid].last_login_at = NULL
    /\ db[res.uid].failed_login_attempts = 5
    /\ db[res.uid].locked_until # NULL

\* C7: a login with an identifier that matches no account and a login with
\* a wrong password for an active, unlocked account fail with the same
\* code, status, message and response keys: INVALID_CREDENTIALS, 401.
C7_SameErrorForUnknownAndWrong ==
    [][\A i \in Identifiers, p \in LoginPasswords :
        (/\ \/ \A u \in Users : ~Matches(u, i)
            \/ \E u \in Users :
                  /\ Matches(u, i) /\ ~Verifies(u, p)
                  /\ db[u].is_active
                  /\ (db[u].locked_until = NULL \/ now > db[u].locked_until)
         /\ login(i, p)) =>
            /\ res'.code = "INVALID_CREDENTIALS"
            /\ res'.status = 401
            /\ res'.message = "Invalid username or password"
            /\ res'.keys = {"error", "code"}
            /\ res'.tokens = {}]_vars

C7_Witness ==
    /\ res.op = "login" /\ res.uid = 0
    /\ res.code = "INVALID_CREDENTIALS" /\ res.status = 401
    /\ Len(db) > 0 /\ db[1].is_active /\ db[1].locked_until = NULL

\* C8 as stated: request_password_reset answers with the same keys and the
\* same message for an unknown email, an inactive account and an active
\* account.
C8_UniformResetResponse ==
    res.op = "request_password_reset" =>
        /\ res.keys = {"message"}
        /\ res.message =
             "If the email address exists, a password reset link has been sent."

\* C9: a reset token issued for an active account is stored with the expiry
\* now + 24 hours; reset_password with the stored token and a well-formed
\* new password is accepted before that expiry and rejected after it; with
\* a token already consumed by a successful reset it is rejected and
\* changes nothing.
C9_ResetTokenRoundTrip ==
    [][/\ \A e \in ResetEmails : \A u \in Users :
            (res'.uid = u /\ res'.tokens # {} /\ request_password_reset(e)) =>
                /\ db[u].is_active
                /\ db'[u].password_reset_token # NULL
                /\ db'[u].password_reset_token \notin consumed
                /\ db'[u].password_reset_expires_at = now + 24 * 60
       /\ \A k \in TokenInputs \cap {res'.token}, p \in NewPasswords :
            (res'.op = "reset_password"
             /\ Len(Strip(p)) >= 8
             /\ reset_password(k, p)) =>
                /\ \A u \in Users :
                     (/\ db[u].password_reset_token = k
                      /\ now < db[u].password_reset_expires_at) =>
                         /\ res'.code = "OK"
                         /\ db'[u].password_hash = <<"hash", p>>
                /\ \A u \in Users :
                     (/\ db[u].password_reset_token = k
                      /\ now > db[u].password_reset_expires_at) =>
                         /\ res'.code # "OK"
                         /\ db'[u].password_hash = db[u].password_hash
                /\ k \in consumed => (res'.code # "OK" /\ db' = db)]_vars

C9_Witness ==
    /\ res.op = "reset_password" /\ res.code # "OK" /\ res.uid # 0
    /\ db[res.uid].password_reset_token # NULL
    /\ now > db[res.uid].password_reset_expires_at
    /\ consumed # {}

\* C10: a successful reset_password, also on a locked account, leaves the
\* reset token and its expiry null, the counter at 0, locked_until null and
\* the new password stored; the login that follows it on the active account
\* with the new password succeeds.
C10_ResetClearsAndSetsPassword ==
    [][/\ \A k \in TokenInputs \cap {res'.token}, p \in NewPasswords :
          \A u \in Users :
            (res'.op = "reset_password"
             /\ res'.uid = u /\ res'.code = "OK"
             /\ reset_password(k, p)) =>
                /\ db'[u].password_reset_token = NULL
                /\ db'[u].password_reset_expires_at = NULL
                /\ db'[u].failed_login_attempts = 0
                /\ db'[u].locked_until = NULL
                /\ db'[u].password_hash = <<"hash", p>>
       /\ \A i \in Identifiers, p \in LoginPasswords : \A u \in Users :
            (/\ res.op = "reset_password" /\ res.code = "OK" /\ res.uid = u
             /\ Matches(u, i) /\ Verifies(u, p) /\ db[u].is_active
             /\ login(i, p)) =>
                /\ res'.code = "OK"
                /\ res'.tokens = {"access_token", "refresh_token"}]_vars

C10_Witness ==
    /\ res.op = "reset_password" /\ res.code = "OK"
    /\ res.before.until # NULL /\ now <= res.before.until
    /\ res.before.failed = 5
    /\ db[res.uid].locked_until = NULL
    /\ db[res.uid].failed_login_attempts = 0

\* C11: in every reachable state, each account's password_reset_token and
\* password_reset_expires_at are both null or both non-null.
C11_ResetTokenAndExpiryTogether ==
    \A u \in Users :
        (db[u].password_reset_token = NULL)
            <=> (db[u].password_reset_expires_at = NULL)

C11_Witness ==
    /\ res.op = "reset_password" /\ res.code = "OK"
    /\ db[res.uid].password_reset_token = NULL
    /\ db[res.uid].password_reset_expires_at = NULL
    /\ consumed # {}

\* C12 as stated: verify_email with the pending token of an unverified
\* account succeeds, marks the account verified and clears its token; called
\* again with that consumed token it succeeds again and changes no state.
C12_VerifyEmailTwiceSucceeds ==
    [][\A k \in TokenInputs :
        /\ \A u \in Users :
              (/\ db[u].email_verification_token = k /\ ~db[u].is_verified
               /\ verify_email(k)) =>
                  /\ res'.code = "OK"
                  /\ db'[u].is_verified
                  /\ db'[u].email_verification_token = NULL
        /\ (k \in consumed /\ verify_email(k)) =>
              (res'.code = "OK" /\ db' = db)]_vars

\* C13: no two accounts have the same normalized username or the same
\* normalized email, and a register call with well-formed fields whose
\* username or email equals an existing one case-insensitively fails with
\* DUPLICATE_RESOURCE (409) and creates no account.
C13_RegisterKeepsNamesUnique ==
    /\ [](\A u, v \in Users :
            u # v =>
                /\ Strip(Lower(db[u].username)) # Strip(Lower(db[v].username))
                /\ Strip(Lower(db[u].email)) # Strip(Lower(db[v].email)))
    /\ [][\A n \in AccountUsernames, e \in AccountEmails,
             p \in AccountPasswords :
            (/\ Len(n) \in 3..50 /\ Len(e) \in 5..100 /\ Len(p) \in 8..128
             /\ \E u \in Users :
                   \/ Strip(Lower(db[u].username)) = Strip(Lower(n))
                   \/ Strip(Lower(db[u].email)) = Strip(Lower(e))
             /\ register(n, e, p)) =>
                /\ res'.code = "DUPLICATE_RESOURCE"
                /\ res'.status = 409
                /\ db' = db]_vars

C13_Witness ==
    /\ res.op = "register" /\ res.code = "DUPLICATE_RESOURCE"
    /\ Len(db) = 2
    /\ db[1].username # db[2].username /\ db[1].email # db[2].email

\* C14 as stated: whatever the interleaving of two register calls that use
\* the same username or the same email, no two accounts share a username or
\* an email, and the call that loses at the commit fails with
\* DUPLICATE_RESOURCE (409).
C14_RaceLoserGetsDuplicateResource ==
    /\ [](\A u, v \in Users :
            u # v => /\ db[u].username # db[v].username
                     /\ db[u].email # db[v].email)
    /\ [][\A p \in Procs :
            (/\ inflight[p].pc = "create"
             /\ unique_violation(register_user(p).user)
             /\ register_create(p)) =>
                /\ res'.code = "DUPLICATE_RESOURCE"
                /\ res'.status = 409
                /\ db' = db]_vars

\* C15 as stated: whenever login fails with INVALID_CREDENTIALS after a
\* password that did not verify, the store holds the incremented counter
\* (and locked_until = now + 30 when the counter reached 5), also in an
\* execution where the commit fails.
C15_FailedAttemptIsDurable ==
    [][\A i \in Identifiers, p \in LoginPasswords : \A u \in Users :
        (/\ res'.uid = u /\ res'.pwChecked
         /\ res'.code = "INVALID_CREDENTIALS"
         /\ (login(i, p) \/ login_commit_failure(i, p))) =>
            LET k == res'.lockchk.failed + 1 IN
            /\ db'[u].failed_login_attempts = k
            /\ (k >= 5 => db'[u].locked_until = now + 30)]_vars

\* C16 as stated: login on a locked account fails with ACCOUNT_LOCKED and
\* status 423, and login on an inactive account fails with a business-rule
\* error and status 403.
C16_Locked423Inactive403 ==
    [][\A i \in Identifiers, p \in LoginPasswords : \A u \in Users :
        (Matches(u, i) /\ login(i, p)) =>
            /\ ~db[u].is_active =>
                  (res'.code = "BUSINESS_LOGIC_ERROR" /\ res'.status = 403)
            /\ (/\ db[u].is_active
                /\ db[u].locked_until # NULL
                /\ now <= db[u].locked_until) =>
                  (res'.code = "ACCOUNT_LOCKED" /\ res'.status = 423)]_vars

\* C17: refresh_token issues an access token and never a refresh token, and
\* issues it exactly when the account is active and not locked at the time
\* of the call; for an inactive or a locked account it fails and issues
\* nothing.
C17_RefreshOnlyForActiveUnlocked ==
    [][\A u \in UserIds :
        (res'.op = "refresh_token" /\ refresh_token(u)) =>
            LET locked == /\ db[u].locked_until # NULL
                          /\ now <= db[u].locked_until
            IN
            /\ res'.tokens \subseteq {"access_token"}
            /\ "refresh_token" \notin res'.keys
            /\ (db[u].is_active /\ ~locked) =>
                  (res'.code = "OK" /\ res'.tokens = {"access_token"})
            /\ (~db[u].is_active \/ locked) =>
                  (res'.code # "OK" /\ res'.tokens = {})]_vars

C17_Witness ==
    /\ res.op = "refresh_token" /\ res.code = "OK"
    /\ res.tokens = {"access_token"}
    /\ db[res.uid].locked_until # NULL
    /\ now > db[res.uid].locked_until

\* C18: a login for an account with is_active = false is rejected whatever
\* the password and the lock state, issues no token and leaves
\* failed_login_attempts, locked_until and last_login_at as they were.
C18_InactiveLoginChangesNothing ==
    [][\A i \in Identifiers, p \in LoginPasswords : \A u \in Users :
        (Matches(u, i) /\ ~db[u].is_active /\ login(i, p)) =>
            /\ res'.code # "OK"
            /\ res'.tokens = {}
            /\ db'[u].failed_login_attempts = db[u].failed_login_attempts
            /\ db'[u].locked_until = db[u].locked_until
            /\ db'[u].last_login_at = db[u].last_login_at]_vars

C18_Witness ==
    /\ res.op = "login" /\ res.uid # 0
    /\ res.message = MSG_DEACTIVATED
    /\ ~db[res.uid].is_active
    /\ db[res.uid].failed_login_attempts \in 1..4
    /\ db[res.uid].locked_until = NULL

\* C19 as stated: a manual unlock leaves the account with
\* failed_login_attempts = 0 and locked_until null from any prior state,
\* also from an unlocked account with 1 to 4 recorded failures.
C19_UnlockForcesZero ==
    [][\A i \in UserIds :
        (i \in Users /\ unlock_user_account(i)) =>
            /\ db'[i].failed_login_attempts = 0
            /\ db'[i].locked_until = NULL]_vars

\* C20 as stated: login looks the identifier up as a username first when it
\* has no "@" and as an email first otherwise, falling back to the other
\* field on a miss, so an identifier equal to some account's username or
\* email finds an account it names.
C20_IdentifierFindsAccount ==
    [][\A i \in AccountIdentifiers, p \in RegPasswords :
        ((\E u \in Users : Matches(u, i)) /\ login(i, p)) =>
            /\ res'.uid \in Users
            /\ Matches(res'.uid, i)
            /\ res'.code # "INVALID_CREDENTIALS"]_vars

\* C21 as stated: login with an empty username_or_email and/or an empty
\* password fails with VALIDATION_ERROR and changes no account.
C21_EmptyLoginFieldIsValidationError ==
    [][\A i \in ValIdentifiers, p \in ValLoginPasswords :
        ((i = <<>> \/ p = <<>>) /\ login(i, p)) =>
            (res'.code = "VALIDATION_ERROR" /\ db' = db)]_vars

\* C22 as stated: with an unused username and an unused email, register
\* accepts every username of length 3 to 80 with every password of length
\* 8 or more, and rejects with a validation error, creating no account,
\* every username shorter than 3 or longer than 80 and every password
\* shorter than 8.
C22_RegisterLengthLimits ==
    [][\A n \in ValUsernames, e \in ValEmails, p \in ValPasswords :
        (/\ get_by_username(n) = 0 /\ get_by_email(e) = 0
         /\ nextTok <= MaxTokens
         /\ register(n, e, p)) =>
            IF Len(n) \in 3..80 /\ Len(p) >= 8
            THEN res'.code = "OK" /\ Len(db') = Len(db) + 1
            ELSE res'.code = "VALIDATION_ERROR" /\ db' = db]_vars

\* C23 as stated: is_verified of an existing account becomes true only in
\* a verify_email call that presents the verification token stored on that
\* account.
C23_VerifiedOnlyByVerifyEmail ==
    [][\A u \in Users :
        (~db[u].is_verified /\ db'[u].is_verified) =>
            \E k \in TokenInputs :
                /\ db[u].email_verification_token = k
                /\ verify_email(k)]_vars

\* C23 as amended: is_verified of an existing account becomes true only in
\* a verify_email call that presents the verification token stored on that
\* account, or in an administrative update_user of that account whose data
\* set is_verified to true.
C23_VerifiedByVerifyEmailOrUpdate ==
    [][\A u \in Users :
        (~db[u].is_verified /\ db'[u].is_verified) =>
            \/ \E k \in TokenInputs :
                  /\ db[u].email_verification_token = k
                  /\ verify_email(k)
            \/ \E d \in Updates :
                  /\ "is_verified" \in DOMAIN d
                  /\ d["is_verified"]
                  /\ update_user(u, d)]_vars

C23_Witness ==
    /\ res.op = "verify_email" /\ res.code = "OK"
    /\ res.message = MSG_VERIFIED
    /\ db[res.uid].is_verified
    /\ db[res.uid].email_verification_token = NULL
    /\ \E v \in Users :
          /\ v # res.uid /\ db[v].is_verified
          /\ db[v].email_verification_token # NULL

\* C26 as stated: after a successful change_password the account's stored
\* failed_login_attempts is 0 and its locked_until is null.
C26_ChangePasswordResetsCounter ==
    [][\A i \in UserIds, c \in LoginPasswords, n \in ChangePasswords :
        (res'.code = "OK" /\ change_password(i, c, n)) =>
            /\ db'[i].failed_login_attempts = 0
            /\ db'[i].locked_until = NULL]_vars

\* C29: a request authenticated by a token issued to an account is
\* rejected while the account is inactive or locked, and accepted when the
\* account is active and its lock, if any, has expired.
C29_LockSuspendsTokens ==
    [][\A u \in UserIds :
        (res'.op = "get_current_user_info" /\ get_current_user_info(u)) =>
            LET locked == /\ db[u].locked_until # NULL
                          /\ now <= db[u].locked_until
            IN
            /\ (~db[u].is_active \/ locked) => res'.status = 401
            /\ (db[u].is_active /\ ~locked) => res'.code = "OK"]_vars

C29_Witness ==
    /\ res.op = "get_current_user_info" /\ res.code = "OK"
    /\ db[res.uid].locked_until # NULL
    /\ now > db[res.uid].locked_until
    /\ db[res.uid].last_login_at < db[res.uid].locked_until - LOCK_MINUTES + 1

\* C30: a change_password call that fails leaves the stored password_hash,
\* failed_login_attempts and locked_until as they were.
C30_FailedChangeCommitsNothing ==
    [][\A i \in UserIds, c \in LoginPasswords, n \in ChangePasswords :
        (/\ res'.op = "change_password" /\ res'.code # "OK"
         /\ change_password(i, c, n)) =>
            /\ db'[i].password_hash = db[i].password_hash
            /\ db'[i].failed_login_attempts = db[i].failed_login_attempts
            /\ db'[i].locked_until = db[i].locked_until]_vars

C30_Witness ==
    /\ res.op = "change_password" /\ res.code = "TypeError"
    /\ ~res.pwChecked
    /\ db[res.uid].failed_login_attempts \in 1..4
    /\ db[res.uid].locked_until = NULL

\* C27: at most one reset token is usable per account: a new
\* request_password_reset overwrites the stored token with one never issued
\* before, and reset_password rejects, changing nothing, every token that no
\* account stores, so a superseded token is refused though unexpired.
C27_NewRequestRevokesOldToken ==
    /\ [](\A u \in Users : db[u].password_reset_token < nextTok)
    /\ [][\A e \in ResetEmails :
            (res'.op = "request_password_reset"
             /\ res'.tokens = {"reset_token"}
             /\ request_password_reset(e)) =>
                /\ db'[res'.uid].password_reset_token = nextTok
                /\ \A v \in Users :
                      db[res'.uid].password_reset_token # NULL =>
                        db'[v].password_reset_token #
                            db[res'.uid].password_reset_token]_vars
    /\ [][\A k \in TokenInputs \cap {res'.token}, p \in NewPasswords :
            (res'.op = "reset_password"
             /\ (\A u \in Users : db[u].password_reset_token # k)
             /\ reset_password(k, p)) =>
                /\ res'.code # "OK"
                /\ db' = db]_vars

C27_Witness ==
    /\ res.op = "reset_password" /\ res.code # "OK"
    /\ Len(db) = 1
    /\ res.token > db[1].email_verification_token
    /\ res.token < db[1].password_reset_token
    /\ db[1].password_reset_expires_at # NULL
    /\ ticks = 0
    /\ db[1].password_hash = generate_password_hash(PwA)

\* C28: reset_password presented with an account's stored reset token after
\* its expiry fails and leaves the stored token and expiry both cleared.
C28_ExpiredTokenClearedInStore ==
    [][\A k \in TokenInputs, p \in NewPasswords, u \in Users :
        (/\ db[u].password_reset_token = k
         /\ db[u].password_reset_expires_at # NULL
         /\ now > db[u].password_reset_expires_at
         /\ reset_password(k, p)) =>
            /\ res'.code # "OK"
            /\ db'[u].password_reset_token = NULL
            /\ db'[u].password_reset_expires_at = NULL]_vars

\* C24: every stored account is unlocked with a counter of 0..4 or locked
\* with a counter of exactly 5, and no operation moves an existing lock to a
\* later time.
C24_LockInvariant ==
    /\ [](\A u \in Users :
            \/ db[u].locked_until = NULL
                /\ db[u].failed_login_attempts \in 0..(LOCK_THRESHOLD - 1)
            \/ db[u].locked_until # NULL
                /\ db[u].failed_login_attempts = LOCK_THRESHOLD)
    /\ [][\A u \in Users :
            (db[u].locked_until # NULL /\ db'[u].locked_until # NULL) =>
                db'[u].locked_until <= db[u].locked_until]_vars

\* C25: the failed-login count is a read-then-write that is not atomic: a
\* failed login whose request loaded an unlocked row commits the counter it
\* read plus one, whatever the store holds by then, so two concurrent failed
\* logins that both read n both commit n + 1 and the stored counter falls
\* behind the failed attempts.
C25_FailedLoginWritesReadPlusOne ==
    [][\A p \in Procs :
        (/\ inflight[p].pc = "check"
         /\ inflight[p].row.locked_until = NULL
         /\ res'.code = "INVALID_CREDENTIALS"
         /\ login_write(p)) =>
            LET n == inflight[p].row.failed_login_attempts IN
            /\ db'[inflight[p].uid].failed_login_attempts = n + 1
            /\ res'.before.failed = db[inflight[p].uid].failed_login_attempts]_vars

C25_Witness ==
    /\ res.op = "login" /\ res.code = "INVALID_CREDENTIALS"
    /\ res.before.done
    /\ res.before.failed = res.lockchk.failed + 1
    /\ db[res.uid].failed_login_attempts = res.before.failed
    /\ db[res.uid].locked_until = NULL

====
